---- MODULE Spec2Model ----
(***************************************************************************)
(* pvgmsh.frontal_delaunay_2d (src/src/pvgmsh/__init__.py) as a state      *)
(* machine.  One frame per caller thread walks the function line by line;  *)
(* every call into the gmsh engine is one step acting on the process-wide  *)
(* engine session `gmsh`.  The engine itself is an external library: the   *)
(* operators Gmsh* state what each API call consumed by the adapter does   *)
(* to the session (tags are unique per entity kind, a line needs both end  *)
(* points, every call but initialize needs an initialized session,         *)
(* initialize on an initialized session changes nothing).                  *)
(***************************************************************************)
EXTENDS Integers, Sequences, FiniteSets, TLC

VARIABLES gmsh, fr, build

vars == <<gmsh, fr, build>>

\* ---------------------------------------------------------------- bounds
MaxPts == 3

\* ------------------------------------------------------------- constants
FRONTAL_DELAUNAY_2D == 6

Threads == {1, 2}
Main == 1

\* ---------------------------------------------------------------- values
\* Python's None and a float argument, as one record shape.
None == [isNone |-> TRUE, v |-> 0]
Some(x) == [isNone |-> FALSE, v |-> x]

Abs(x) == IF x < 0 THEN -x ELSE x
Max2(a, b) == IF a >= b THEN a ELSE b
Max3(a, b, c) == Max2(a, Max2(b, c))
SetMax(S) == CHOOSE m \in S : \A x \in S : x <= m
SetMin(S) == CHOOSE m \in S : \A x \in S : m <= x

\* Python 0-based indexing of a sequence.
Py(s, k) == s[k + 1]
PyInRange(s, k) == k >= 0 /\ k < Len(s)

\* range(a, b) as a sequence.
Range(a, b) == [k \in 1..Max2(b - a, 0) |-> a + k - 1]

\* ------------------------------------------------------- the edge source
\* edge_source.points: the first n vertices of a convex polygon.
Coord(i) == <<i * i, i, 0>>
Points(n) == [k \in 1..n |-> Coord(k - 1)]

\* edge_source.bounds: (xmin, xmax, ymin, ymax, zmin, zmax); an empty
\* data set reports the uninitialised box (1, -1, 1, -1, 1, -1).
Bounds(pts) ==
  IF Len(pts) = 0 THEN <<1, -1, 1, -1, 1, -1>>
  ELSE LET ax(d) == {pts[k][d] : k \in 1..Len(pts)}
       IN <<SetMin(ax(1)), SetMax(ax(1)), SetMin(ax(2)), SetMax(ax(2)),
            SetMin(ax(3)), SetMax(ax(3))>>

\* edge_source.lines: one run [count, idx_0, ..., idx_{count-1}].
\* Polyline(k, closed) walks points 0..k-1 and, when closed, names point 0
\* again at the end (the layout of pv.Polygon(fill=False)).
Polyline(k, closed) ==
  LET body == [j \in 1..k |-> j - 1]
      idx == IF closed THEN Append(body, 0) ELSE body
  IN <<Len(idx)>> \o idx

\* No lines at all (a data set that only has faces), or a polyline over up
\* to MaxPts + 1 points: one that is longer than the point set names
\* indices out of its range.
LinesInputs ==
  {<<>>} \cup {Polyline(k, c) : k \in 2..(MaxPts + 1), c \in BOOLEAN}

TargetInputs == {None, Some(-1), Some(0), Some(2)}

Inputs ==
  [points : {Points(n) : n \in 0..MaxPts}, lines : LinesInputs,
   target_size : TargetInputs]

\* Overlapping callers are given well-formed boundaries only.
ConcInputs ==
  {[points |-> Points(n), lines |-> Polyline(n, TRUE), target_size |-> Some(2)] :
     n \in 3..MaxPts}

NoInput == [points |-> <<>>, lines |-> <<>>, target_size |-> None]

\* ------------------------------------------------------ the gmsh session
EmptyGeo == [points |-> {}, lines |-> {}, loops |-> {}, surfaces |-> {}]

Fresh ==
  [initialized |-> FALSE, algorithm |-> 0,
   geo |-> EmptyGeo, model |-> EmptyGeo, mesh |-> EmptyGeo]

Tags(S) == {e.tag : e \in S}

Ok(g) == [ok |-> TRUE, g |-> g]
Err(g) == [ok |-> FALSE, g |-> g]

\* gmsh.initialize(): a second initialize of a live session is ignored.
GmshInitialize(g) ==
  IF g.initialized THEN g ELSE [Fresh EXCEPT !.initialized = TRUE]

\* gmsh.option.set_number("Mesh.Algorithm", value)
GmshSetAlgorithm(g, value) ==
  IF ~g.initialized THEN Err(g) ELSE Ok([g EXCEPT !.algorithm = value])

\* gmsh.model.geo.add_point(x, y, z, meshSize, tag)
GmshAddPoint(g, xyz, lc, tag) ==
  IF ~g.initialized \/ tag \in Tags(g.geo.points) THEN Err(g)
  ELSE Ok([g EXCEPT !.geo.points =
             @ \cup {[tag |-> tag, xyz |-> xyz, lc |-> lc]}])

\* gmsh.model.geo.add_line(startTag, endTag, tag)
GmshAddLine(g, a, b, tag) ==
  IF \/ ~g.initialized
     \/ tag \in Tags(g.geo.lines)
     \/ a \notin Tags(g.geo.points)
     \/ b \notin Tags(g.geo.points)
  THEN Err(g)
  ELSE Ok([g EXCEPT !.geo.lines =
             @ \cup {[tag |-> tag, a |-> a, b |-> b]}])

LineOf(geo, tag) == CHOOSE l \in geo.lines : l.tag = tag

\* The curves of a loop exist, chain head to tail and return to their start.
ClosedCycle(geo, curves) ==
  /\ Len(curves) >= 1
  /\ \A k \in 1..Len(curves) : curves[k] \in Tags(geo.lines)
  /\ \A k \in 1..Len(curves) :
       LineOf(geo, curves[k]).b =
         LineOf(geo, curves[IF k = Len(curves) THEN 1 ELSE k + 1]).a

\* How the engine build at hand treats geometry that bounds no surface.
\* That is the engine's business and the same for every call of a run:
\*   "strict"   refuses a curve loop that is no closed cycle of known curves
\*              when it is added, and refuses to mesh a malformed model;
\*   "late"     takes any curve loop and refuses to mesh a malformed model;
\*   "lenient"  raises for neither.
Builds == {"strict", "late", "lenient"}

\* gmsh.model.geo.add_curve_loop(curveTags, tag)
GmshAddCurveLoop(g, curves, tag, b) ==
  IF \/ ~g.initialized
     \/ tag \in Tags(g.geo.loops)
     \/ (b = "strict" /\ ~ClosedCycle(g.geo, curves))
  THEN Err(g)
  ELSE Ok([g EXCEPT !.geo.loops =
             @ \cup {[tag |-> tag, curves |-> curves]}])

\* gmsh.model.geo.add_plane_surface(wireTags, tag)
GmshAddPlaneSurface(g, wires, tag) ==
  IF \/ ~g.initialized
     \/ tag \in Tags(g.geo.surfaces)
     \/ \E k \in 1..Len(wires) : wires[k] \notin Tags(g.geo.loops)
  THEN Err(g)
  ELSE Ok([g EXCEPT !.geo.surfaces =
             @ \cup {[tag |-> tag, loops |-> wires]}])

\* gmsh.model.geo.synchronize(): the built entities become the model.
GmshSynchronize(g) ==
  IF ~g.initialized THEN Err(g) ELSE Ok([g EXCEPT !.model = g.geo])

\* A model the mesher is known to accept: one surface bounded by a closed
\* cycle of at least three lines.
WellFormed(geo) ==
  /\ geo.surfaces # {}
  /\ \A s \in geo.surfaces : \A k \in 1..Len(s.loops) :
       \E lp \in geo.loops :
         /\ lp.tag = s.loops[k]
         /\ Len(lp.curves) >= 3
         /\ ClosedCycle(geo, lp.curves)

\* gmsh.model.mesh.generate(2): the mesh is a function of the whole
\* synchronized model, whoever built it.
GmshGenerate(g, b) ==
  IF ~g.initialized \/ (b # "lenient" /\ ~WellFormed(g.model)) THEN Err(g)
  ELSE Ok([g EXCEPT !.mesh = g.model])

\* gmsh.clear()
GmshClear(g) ==
  IF ~g.initialized THEN Err(g)
  ELSE Ok([g EXCEPT !.geo = EmptyGeo, !.model = EmptyGeo, !.mesh = EmptyGeo])

\* gmsh.finalize()
GmshFinalize(g) ==
  IF ~g.initialized THEN Err(g) ELSE Ok(Fresh)

\* ------------------------------------------------------------ the frames
\* The numbers of data arrays the extraction bridge may attach to a mesh.
ArrayCounts == {0, 1}

NoMesh == [present |-> FALSE, src |-> EmptyGeo, arrays |-> 0]

\* What a caller remembers of its previous call: how it ended, whether its
\* boundary named a point index out of range, whether the call now running
\* was given the very same arguments, and the model its mesh was made of.
NoPrev == [outcome |-> "none", malformed |-> FALSE, same |-> FALSE, src |-> EmptyGeo]

\* The frame of one caller: its position, the arguments and locals of the
\* running call, how the call ended, and (reg, teardown, shared) what the
\* call has registered with the engine, how far it has torn the session
\* down, and whether its initialize found the session already live.
Idle ==
  [pc |-> "idle", edge_source |-> NoInput, target_size |-> None,
   i |-> 0, lines |-> <<>>, mesh |-> NoMesh, outcome |-> "none",
   err |-> "none", reg |-> EmptyGeo, teardown |-> "none", shared |-> FALSE,
   prev |-> NoPrev]

Init ==
  /\ gmsh = Fresh
  /\ fr = [t \in Threads |-> Idle]
  /\ build \in Builds

At(t, l) == fr[t].pc = l

Goto(f, l) == [f EXCEPT !.pc = l]

\* Control is back with the caller: the locals of the call are gone, its
\* result (a mesh or an exception) is what the caller holds.
Exit(f, outcome, e) ==
  [f EXCEPT !.pc = "done", !.outcome = outcome, !.err = e, !.i = 0,
            !.lines = <<>>, !.target_size = None, !.reg = EmptyGeo,
            !.prev = NoPrev]

\* An exception leaves the function at once: nothing after the raising
\* line runs (the function has no try/finally).
Raise(f, e) == Exit(f, "raised", e)

\* The caller invokes frontal_delaunay_2d(edge_source, target_size).
\* Some index of the lines run is no position of the point sequence.
OutOfRange(in) ==
  \E k \in 2..Len(in.lines) : in.lines[k] >= Len(in.points)

Call(t, in) ==
  /\ fr[t].pc \in {"idle", "done"}
  /\ fr' = [fr EXCEPT ![t] =
       [Idle EXCEPT !.pc = "L74", !.edge_source = in,
                    !.target_size = in.target_size,
                    !.prev = [outcome |-> fr[t].outcome,
                              malformed |-> OutOfRange(fr[t].edge_source),
                              same |-> fr[t].edge_source = in,
                              src |-> IF fr[t].edge_source = in
                                      THEN fr[t].mesh.src ELSE EmptyGeo]]]
  /\ UNCHANGED <<gmsh, build>>

\* line 74
Initialize(t) ==
  /\ At(t, "L74")
  /\ gmsh' = GmshInitialize(gmsh)
  /\ fr' = [fr EXCEPT ![t] = [@ EXCEPT !.pc = "L75", !.shared = gmsh.initialized]]
  /\ UNCHANGED build

\* line 75
SetAlgorithm(t) ==
  /\ At(t, "L75")
  /\ LET r == GmshSetAlgorithm(gmsh, FRONTAL_DELAUNAY_2D) IN
       /\ gmsh' = r.g
       /\ fr' = [fr EXCEPT ![t] =
            IF r.ok THEN Goto(@, "L77") ELSE Raise(@, "Exception")]
  /\ UNCHANGED build

\* numpy.max(a, axis, out): the second and third positional parameters of
\* numpy.max are axis and out.  a is a 0-d scalar; an axis must be an
\* integer (a numpy.float64 is refused) and out must be an array.
NpMax(a, axis, out) == [ok |-> FALSE, val |-> 0, err |-> "TypeError"]

ResolvedSizeClamped(target_size, pts) ==
  [ok |-> TRUE, err |-> "none",
   val |-> IF target_size.isNone \/ target_size.v <= 0 THEN 1 ELSE target_size.v]

\* lines 77-82: the value bound to target_size before the point loop.
ResolvedSize(target_size, pts) ==
  IF target_size.isNone
  THEN LET b == Bounds(pts)
       IN NpMax(Abs(Py(b, 1) - Py(b, 0)), Abs(Py(b, 3) - Py(b, 2)),
                Abs(Py(b, 5) - Py(b, 4)))
  ELSE [ok |-> TRUE, val |-> target_size.v, err |-> "none"]

ResolveTargetSize(t) ==
  /\ At(t, "L77")
  /\ LET r == ResolvedSize(fr[t].target_size, fr[t].edge_source.points) IN
       fr' = [fr EXCEPT ![t] =
         IF r.ok THEN [@ EXCEPT !.pc = "L84", !.i = 0, !.target_size = Some(r.val)]
         ELSE Raise(@, r.err)]
  /\ UNCHANGED <<gmsh, build>>

\* line 85: the tag given to the point at position i.
PointTag(i) == i + 1

\* lines 84-85, one iteration
AddPoint(t) ==
  /\ At(t, "L84")
  /\ fr[t].i < Len(fr[t].edge_source.points)
  /\ LET f == fr[t]
         point == Py(f.edge_source.points, f.i)
         r == GmshAddPoint(gmsh, point, f.target_size.v, PointTag(f.i))
     IN /\ gmsh' = r.g
        /\ fr' = [fr EXCEPT ![t] =
             IF r.ok
             THEN [@ EXCEPT !.i = f.i + 1,
                            !.reg.points = @ \cup (r.g.geo.points \ gmsh.geo.points)]
             ELSE Raise(@, "Exception")]
  /\ UNCHANGED build

\* lines 87-88: lines = edge_source.lines; range(lines[0] - 1)
ReadLines(t) ==
  /\ At(t, "L84")
  /\ fr[t].i = Len(fr[t].edge_source.points)
  /\ LET lines == fr[t].edge_source.lines IN
       fr' = [fr EXCEPT ![t] =
         IF PyInRange(lines, 0)
         THEN [@ EXCEPT !.pc = "L88", !.i = 0, !.lines = lines]
         ELSE Raise(@, "IndexError")]
  /\ UNCHANGED <<gmsh, build>>

LineEndNoOffset(lines, i) == Py(lines, i + 2)

\* line 89: the two end-point tags and the tag of the i-th line.
LineStart(lines, i) == Py(lines, i + 1) + 1
LineEnd(lines, i) == Py(lines, i + 2) + 1
LineTag(i) == i + 1

\* line 88: the number of iterations of the line loop.
LineCount(lines) == Max2(Py(lines, 0) - 1, 0)

\* lines 88-89, one iteration
AddLine(t) ==
  /\ At(t, "L88")
  /\ fr[t].i < LineCount(fr[t].lines)
  /\ LET f == fr[t] IN
       IF ~(PyInRange(f.lines, f.i + 1) /\ PyInRange(f.lines, f.i + 2))
       THEN /\ fr' = [fr EXCEPT ![t] = Raise(@, "IndexError")]
            /\ UNCHANGED gmsh
       ELSE LET r == GmshAddLine(gmsh, LineStart(f.lines, f.i),
                                 LineEnd(f.lines, f.i), LineTag(f.i))
            IN /\ gmsh' = r.g
               /\ fr' = [fr EXCEPT ![t] =
                    IF r.ok
                    THEN [@ EXCEPT !.i = f.i + 1,
                                   !.reg.lines = @ \cup (r.g.geo.lines \ gmsh.geo.lines)]
                    ELSE Raise(@, "Exception")]
  /\ UNCHANGED build

LoopCurvesShort(lines) == Range(1, Py(lines, 0) - 1)

\* line 91: the curve tags handed to add_curve_loop.
LoopCurves(lines) == Range(1, Py(lines, 0))

\* line 91
AddCurveLoop(t) ==
  /\ At(t, "L88")
  /\ fr[t].i = LineCount(fr[t].lines)
  /\ LET f == fr[t]
         r == GmshAddCurveLoop(gmsh, LoopCurves(f.lines), 1, build)
     IN /\ gmsh' = r.g
        /\ fr' = [fr EXCEPT ![t] =
             IF r.ok
             THEN [@ EXCEPT !.pc = "L92",
                            !.reg.loops = @ \cup (r.g.geo.loops \ gmsh.geo.loops)]
             ELSE Raise(@, "Exception")]
  /\ UNCHANGED build

\* line 92
AddPlaneSurface(t) ==
  /\ At(t, "L92")
  /\ LET f == fr[t]
         r == GmshAddPlaneSurface(gmsh, <<1>>, 1)
     IN /\ gmsh' = r.g
        /\ fr' = [fr EXCEPT ![t] =
             IF r.ok
             THEN [@ EXCEPT !.pc = "L93",
                            !.reg.surfaces =
                               @ \cup (r.g.geo.surfaces \ gmsh.geo.surfaces)]
             ELSE Raise(@, "Exception")]
  /\ UNCHANGED build

\* line 93
Synchronize(t) ==
  /\ At(t, "L93")
  /\ LET r == GmshSynchronize(gmsh) IN
       /\ gmsh' = r.g
       /\ fr' = [fr EXCEPT ![t] =
            IF r.ok THEN Goto(@, "L94") ELSE Raise(@, "Exception")]
  /\ UNCHANGED build

\* line 94
Generate(t) ==
  /\ At(t, "L94")
  /\ LET r == GmshGenerate(gmsh, build) IN
       /\ gmsh' = r.g
       /\ fr' = [fr EXCEPT ![t] =
            IF r.ok THEN Goto(@, "L95") ELSE Raise(@, "Exception")]
  /\ UNCHANGED build

\* line 95: extract_to_meshio() reads the engine's mesh, from_meshio()
\* converts it and carries over whatever data arrays the bridge attached
\* (narr of them); nothing is removed from the result.
ExtractedMesh(g, narr) == [present |-> TRUE, src |-> g.mesh, arrays |-> narr]

Extract(t) ==
  /\ At(t, "L95")
  /\ \E narr \in ArrayCounts :
       fr' = [fr EXCEPT ![t] =
         IF gmsh.initialized
         THEN [@ EXCEPT !.pc = "L96", !.mesh = ExtractedMesh(gmsh, narr)]
         ELSE Raise(@, "Exception")]
  /\ UNCHANGED <<gmsh, build>>

\* line 96
Clear(t) ==
  /\ At(t, "L96")
  /\ LET r == GmshClear(gmsh) IN
       /\ gmsh' = r.g
       /\ fr' = [fr EXCEPT ![t] =
            IF r.ok THEN [@ EXCEPT !.pc = "L97", !.teardown = "cleared"]
            ELSE Raise(@, "Exception")]
  /\ UNCHANGED build

FinalizeSkipped(t) ==
  /\ At(t, "L97")
  /\ fr' = [fr EXCEPT ![t] = [@ EXCEPT !.pc = "L98", !.teardown = "finalized"]]
  /\ UNCHANGED <<gmsh, build>>

\* line 97
Finalize(t) ==
  /\ At(t, "L97")
  /\ LET r == GmshFinalize(gmsh) IN
       /\ gmsh' = r.g
       /\ fr' = [fr EXCEPT ![t] =
            IF r.ok THEN [@ EXCEPT !.pc = "L98", !.teardown = "finalized"]
            ELSE Raise(@, "Exception")]
  /\ UNCHANGED build

\* line 98
Return(t) ==
  /\ At(t, "L98")
  /\ fr' = [fr EXCEPT ![t] = Exit(@, "returned", "none")]
  /\ UNCHANGED <<gmsh, build>>

Body(t) ==
  \/ Initialize(t) \/ SetAlgorithm(t) \/ ResolveTargetSize(t)
  \/ AddPoint(t) \/ ReadLines(t) \/ AddLine(t) \/ AddCurveLoop(t)
  \/ AddPlaneSurface(t) \/ Synchronize(t) \/ Generate(t) \/ Extract(t)
  \/ Clear(t) \/ Finalize(t) \/ Return(t)

\* One caller, one call after the other, any boundary and any target size.
Next == (\E in \in Inputs : Call(Main, in)) \/ Body(Main)

Spec == Init /\ [][Next]_vars

\* Two callers, one call each, whose calls may overlap on the one engine
\* session (or not: either may start after the other is done).
FirstCall(t, in) == At(t, "idle") /\ Call(t, in)

NextConc == \E t \in Threads : (\E in \in ConcInputs : FirstCall(t, in)) \/ Body(t)

SpecConc == Init /\ [][NextConc]_vars

\* ------------------------------------------------------------ properties
Running(t) == fr[t].pc \notin {"idle", "done"}

\* The step on which control goes back to the caller of t's call.
Exits(t) == Running(t) /\ fr'[t].pc = "done"

NPoints(t) == Len(fr[t].edge_source.points)

\* The run count of the lines array of t's call (0 when it has no lines).
Count(t) ==
  IF Len(fr[t].edge_source.lines) = 0 THEN 0 ELSE Py(fr[t].edge_source.lines, 0)

\* A closed polygon over all the points of the boundary, at least a triangle.
ClosedPolygon(in) ==
  Len(in.points) >= 3 /\ in.lines = Polyline(Len(in.points), TRUE)

\* The documented default of target_size: the largest of the three extents
\* of the bounding box.
DefaultSize(pts) ==
  LET b == Bounds(pts)
  IN Max3(Abs(b[2] - b[1]), Abs(b[4] - b[3]), Abs(b[6] - b[5]))

\* C1: every call that initialized the engine session has cleared and
\* finalized it when control is back with its caller, however it ended.
C1_TeardownOnEveryExit ==
  fr[Main].pc = "done" => (fr[Main].teardown = "finalized" /\ ~gmsh.initialized)

\* C2: a call whose loop names a point index out of range ends in an error;
\* the call after it starts on an engine holding none of its entities, and
\* succeeds when its own boundary is a valid closed polygon with a positive
\* target size.
C2_FailedCallLeavesNoTrace ==
  [][\A t \in Threads :
       LET after == fr[t].prev.outcome = "raised" /\ fr[t].prev.malformed IN
       /\ (Exits(t) /\ OutOfRange(fr[t].edge_source)) => fr'[t].outcome = "raised"
       /\ (fr[t].pc = "L74" /\ after) => gmsh.geo = EmptyGeo
       /\ (Exits(t) /\ after /\ ClosedPolygon(fr[t].edge_source)
             /\ fr[t].edge_source.target_size = Some(2))
            => fr'[t].outcome = "returned"]_vars

\* C3: a call with a closed polygon boundary and no target size returns a
\* mesh, made of the whole boundary (the refinement beyond the boundary's
\* own points and edges is the mesher's work on that model).
C3_DefaultSizeCallReturnsMesh ==
  \A t \in Threads :
    (fr[t].pc = "done" /\ ClosedPolygon(fr[t].edge_source)
       /\ fr[t].edge_source.target_size.isNone)
    => /\ fr[t].outcome = "returned"
       /\ fr[t].mesh.present
       /\ Cardinality(fr[t].mesh.src.points) = NPoints(t)
       /\ fr[t].mesh.src.surfaces # {}

\* C4: when target_size is omitted, the call goes on past the resolution
\* of the size, and the size it registers every point with is the largest
\* extent of the boundary's bounding box.
C4_DefaultIsMaxExtent ==
  \A t \in Threads :
    fr[t].edge_source.target_size.isNone =>
      /\ fr[t].pc = "done" => fr[t].err # "TypeError"
      /\ fr[t].pc \in {"L84", "L88"} =>
           /\ fr[t].target_size = Some(DefaultSize(fr[t].edge_source.points))
           /\ \A p \in fr[t].reg.points :
                p.lc = DefaultSize(fr[t].edge_source.points)

\* C5: every line a call registers joins the tags (index + 1) of the two
\* consecutive indices its position names in the lines array, and every
\* input point is registered under the tag (its position + 1), so each end
\* of a line is the entity of the input point its index names.
C5_LineEndsAreIndexPlusOne ==
  \A t \in Threads :
    LET lines == fr[t].edge_source.lines
        pts == fr[t].edge_source.points
    IN /\ \A p \in fr[t].reg.points :
            p.tag \in 1..Len(pts) /\ p.xyz = Py(pts, p.tag - 1)
       /\ fr[t].pc = "L84" => Tags(fr[t].reg.points) = 1..fr[t].i
       /\ \A l \in fr[t].reg.lines :
            LET ia == Py(lines, l.tag)
                ib == Py(lines, l.tag + 1)
            IN /\ l.a = ia + 1
               /\ l.b = ib + 1
               /\ \A j \in {ia, ib} :
                    PyInRange(pts, j) =>
                      \E p \in fr[t].reg.points :
                        p.tag = j + 1 /\ p.xyz = Py(pts, j)

C5_Witness ==
  \E t \in Threads :
    /\ fr[t].pc = "L92"
    /\ Cardinality(fr[t].reg.lines) >= 3
    /\ Cardinality(fr[t].reg.points) >= 3
    /\ ~OutOfRange(fr[t].edge_source)

\* C6: when a call that returned the mesh of a well-formed model is
\* followed by a call with the same arguments, the second call returns a
\* mesh too, made of the same model, and that model is exactly what the
\* second call registered.
C6_SameInputSameMesh ==
  [][\A t \in Threads :
       (Exits(t) /\ fr[t].prev.same /\ fr[t].prev.outcome = "returned"
          /\ WellFormed(fr[t].prev.src))
       => /\ fr'[t].outcome = "returned"
          /\ fr'[t].mesh.src = fr[t].prev.src
          /\ fr'[t].mesh.src = fr[t].reg]_vars

\* C7: a returned mesh carries no data arrays.
C7_ReturnedMeshHasNoArrays ==
  \A t \in Threads : fr[t].outcome = "returned" => fr[t].mesh.arrays = 0

\* C8 (as claimed): once the curve loop is registered, the call has
\* registered one line per edge of the implicitly closed loop, the closing
\* edge from the last index back to the first included, under the tags
\* 1..count, and the curve loop names all of them in order and is closed.
C8_ClosingEdgeRegistered ==
  \A t \in Threads :
    fr[t].reg.loops # {} =>
      LET lines == fr[t].edge_source.lines
          n == Count(t)
      IN /\ Tags(fr[t].reg.lines) = 1..n
         /\ \E l \in fr[t].reg.lines :
              l.a = Py(lines, n) + 1 /\ l.b = Py(lines, 1) + 1
         /\ \A lp \in fr[t].reg.loops :
              lp.curves = Range(1, n + 1) /\ ClosedCycle(fr[t].reg, lp.curves)

\* C8 (amended): the call registers count - 1 lines, one per pair of
\* consecutive indices of the run, under the tags 1..count-1 in order, and
\* no closing edge; its one curve loop names exactly those tags in order,
\* and is a closed cycle exactly when the run ends on the index it starts on.
C8_OneLinePerConsecutivePair ==
  \A t \in Threads :
    LET lines == fr[t].edge_source.lines
        n == Count(t)
    IN /\ fr[t].pc = "L88" => Tags(fr[t].reg.lines) = 1..fr[t].i
       /\ Cardinality(fr[t].reg.lines) <= Max2(n - 1, 0)
       /\ fr[t].reg.loops # {} =>
            /\ Tags(fr[t].reg.lines) = 1..(n - 1)
            /\ \A l \in fr[t].reg.lines :
                 l.a = Py(lines, l.tag) + 1 /\ l.b = Py(lines, l.tag + 1) + 1
            /\ fr[t].reg.loops = {[tag |-> 1, curves |-> Range(1, n)]}
            /\ ClosedCycle(fr[t].reg, Range(1, n))
                 <=> (n >= 2 /\ Py(lines, n) = Py(lines, 1))

C8_Witness ==
  \E t \in Threads :
    /\ fr[t].pc = "L92"
    /\ fr[t].reg.loops # {}
    /\ Count(t) >= 3
    /\ Cardinality(fr[t].reg.lines) = Count(t) - 1
    /\ ~ClosedCycle(fr[t].reg, Range(1, Count(t)))

\* C9 (as claimed): every point entity in the engine has a size above 0.
C9_PointSizePositive ==
  \A p \in gmsh.geo.points : p.lc > 0

\* C9 (amended): every point a call registers carries the target size its
\* caller passed explicitly, unchanged, so it is above 0 exactly when the
\* caller's value is.
C9_PointSizeIsTheArgument ==
  \A t \in Threads : \A p \in fr[t].reg.points :
    /\ ~fr[t].edge_source.target_size.isNone
    /\ p.lc = fr[t].edge_source.target_size.v

C9_Witness ==
  \E t \in Threads :
    /\ fr[t].reg.points # {}
    /\ fr[t].edge_source.target_size.v <= 0
    /\ \E p \in gmsh.geo.points : p.lc <= 0

\* C10: nothing keeps a call's initialize from running on a session another
\* call has live.  When that happens the two calls never both return a
\* mesh; when it does not, each call returns the mesh of exactly the
\* entities it registered itself.
C10_OnlySerializedCallsMeshTheirOwn ==
  \A t \in Threads : \A u \in Threads \ {t} :
    /\ (fr[t].pc = "done" /\ fr[u].pc = "done" /\ (fr[t].shared \/ fr[u].shared))
         => ~(fr[t].outcome = "returned" /\ fr[u].outcome = "returned")
    /\ (~fr[t].shared /\ ~fr[u].shared) =>
         /\ fr[t].pc = "done" => fr[t].outcome = "returned"
         /\ fr[t].pc \in {"L96", "L97", "L98"} =>
              /\ fr[t].mesh.src.points = fr[t].reg.points
              /\ fr[t].mesh.src.lines = fr[t].reg.lines
              /\ Cardinality(fr[t].reg.points) = NPoints(t)
              /\ fr[t].reg.surfaces # {}

\* One call's initialize has run while the other's model is partly built.
C10_Witness ==
  \E t \in Threads : \E u \in Threads \ {t} :
    /\ fr[u].pc = "L75" /\ fr[u].shared
    /\ fr[t].pc = "L88" /\ fr[t].reg.lines # {}

====
